---- MODULE Spec2Model ----
(***************************************************************************)
(* Model of the modsync client (src/client/main.py): configuration        *)
(* bootstrap, per-folder strategy selection, the diff engine              *)
(* (collect_download_tasks) and the resumable single-file fetch           *)
(* (download_file) run by a worker pool, and of the modsync server        *)
(* (src/main.py): the archive cache pass (create_zip_cache, zip_folder,   *)
(* the Hash Record) and the request handler (do_GET).  In the client's    *)
(* specifications the server is represented by the files it holds (src)   *)
(* and by the responses its endpoints can give.                           *)
(***************************************************************************)
EXTENDS Integers, Sequences, FiniteSets, TLC

VARIABLES
    pc,            \* position of the client's main thread
    configFile0,   \* client_config.txt as it was on disk before this run
    configFile,    \* client_config.txt now (sequence of lines)
    serverNames,   \* keys of the server's folders dict (config_names)
    folder_names,  \* the list the client received
    folders,       \* client registrations, in insertion order
    idx,           \* index in folders of the key being synced
    src,           \* the server's files of the current key: path -> node
    local0,        \* the local tree when the sync of the current key began
    local,         \* the local tree of the current key: path -> node
    manifest,      \* the manifest received for the current key
    strategy,      \* the branch the main loop took for the current key
    ops,           \* filesystem/network operations of the current key, in order
    tasks,         \* the worker pool's tasks: one record per submitted task
    published,     \* the manifest the server holds for the current key
    runs,          \* one summary per earlier run of the client on this machine
    printed,       \* the failure messages printed while syncing the current key
    spc,           \* position of the server process (src/main.py)
    sfiles,        \* the server's folders: key -> (path -> node)
    record,        \* cache_zip/hash_record.json on disk
    zips,          \* cache_zip/{key}.zip on disk: key -> archive file
    cache_files,   \* the keys mapped to an archive path by the running process
    record0,       \* the Hash Record file as it was when the pass began
    zips0,         \* the archive files as they were when the pass began
    old_hash,      \* create_zip_cache: what load_old_hash returned
    new_hash,      \* create_zip_cache: the manifests scanned by this pass
    builds,        \* create_zip_cache: key -> state of its zip_folder future
    npass,         \* number of cache passes started so far
    edits,         \* number of changes made to the server's folders so far
    saves,         \* number of times this pass has written the Hash Record
    handled        \* the request being handled and the response sent to it

clientVars == <<pc, configFile0, configFile, serverNames, folder_names, folders,
                idx, src, local0, local, manifest, strategy, ops, tasks,
                published, runs, printed>>

serverVars == <<spc, sfiles, record, zips, cache_files, record0, zips0,
                old_hash, new_hash, builds, npass, edits, saves, handled>>

vars == <<clientVars, serverVars>>

-----------------------------------------------------------------------------
(* Bounds *)

MaxLen == 3          \* longest file content, in bytes (download_file runs)
MaxEntries == 3      \* most entries of a received manifest
MaxKeys == 1         \* most folder keys registered on the server
MaxTasks == 2        \* most tasks handed to the pool directly
MaxPasses == 2       \* most starts of the server process (cache passes)
MaxEdits == 1        \* most changes made to the server's folders

(* Program constants *)

max_retries == 3
max_workers == 8

-----------------------------------------------------------------------------
(* Files and trees *)

Bytes == {1, 2}

Contents(n) == UNION {[1..k -> Bytes] : k \in 0..n}

PA == <<"a">>
PB == <<"b">>
PBC == <<"b", "c">>
PD == <<"d">>

LocalPaths == {PA, PB, PBC, PD}

Absent == [kind |-> "absent", data |-> <<>>, readable |-> FALSE]
Dir == [kind |-> "dir", data |-> <<>>, readable |-> FALSE]
File(d, r) == [kind |-> "file", data |-> d, readable |-> r]

EmptyTree == [p \in LocalPaths |-> Absent]

Prefix(p, k) == SubSeq(p, 1, k)

Parent(p) == SubSeq(p, 1, Len(p) - 1)

IsPrefixOf(q, p) == Len(q) <= Len(p) /\ Prefix(p, Len(q)) = q

\* os.path.exists
Exists(l, p) == l[p].kind # "absent"

\* a tree in which every entry has directories above it
WellFormed(l) ==
    \A p \in LocalPaths : Exists(l, p) =>
        \A k \in 1..(Len(p) - 1) : l[Prefix(p, k)].kind = "dir"

\* variant: a regular file in the way is replaced by the directory
MakedirsOverFiles(l, p) == FALSE

\* os.makedirs(p, exist_ok=True) raises when p or a component above it is a file
MakedirsRaises(l, p) == \E k \in 1..Len(p) : l[Prefix(p, k)].kind = "file"

Makedirs(l, p) ==
    [q \in LocalPaths |-> IF Len(q) >= 1 /\ IsPrefixOf(q, p) THEN Dir ELSE l[q]]

\* os.remove
Remove(l, p) == [l EXCEPT ![p] = Absent]

\* shutil.rmtree(folder_path); os.makedirs(folder_path)
Rmtree(l) == EmptyTree

-----------------------------------------------------------------------------
(* Hashes *)

Md5(d) == [h |-> "md5", of |-> d]
None == [h |-> "none", of |-> <<>>]
ErrorSentinel == [h |-> "error", of |-> <<>>]

\* variant: a file that cannot be read hashes to the server's sentinel
get_md5_or_error(node) ==
    IF node.kind = "file" /\ node.readable THEN Md5(node.data)
    ELSE ErrorSentinel

\* client get_md5: the digest, or None when the file cannot be opened and read
get_md5(node) ==
    IF node.kind = "file" /\ node.readable THEN Md5(node.data) ELSE None

-----------------------------------------------------------------------------
(* The server's folders, Hash Record and archive files *)

\* the keys of config.txt
ServerKeys == {"k1", "k2"}

\* A file name is the sequence of its pieces ("serveronly_x" is
\* <<"serveronly_", "x">>); a path is the sequence of its names.
SA == <<<<"a">>>>
SB == <<<<"b">>>>
SG == <<<<"ignore_me.txt">>>>
SX == <<<<"serveronly_", "x">>>>
SZ == <<<<"z">>>>
Root == <<>>

\* the files a served folder can hold
ServerPaths == {SA, SB, SG}

EmptyFolder == [p \in ServerPaths |-> Absent]

\* hash_record.json: absent, cut short by an interrupted write, or a JSON
\* object key -> manifest; a manifest is a set of (path, md5) pairs
EmptyRecord == [k \in {} |-> {}]

HashRecord(st, e) == [state |-> st, entries |-> e]

NoRecord == HashRecord("missing", EmptyRecord)
TornRecord == HashRecord("torn", EmptyRecord)

\* {key}.zip: absent, being written (no central directory yet), or closed;
\* whole tells that every listed file was written before it was closed
Archive(st, ms, w) == [state |-> st, members |-> ms, whole |-> w]

NoArchive == Archive("none", {}, FALSE)

Future(st, todo, c) == [status |-> st, todo |-> todo, collected |-> c]

NoFuture == Future("idle", <<>>, FALSE)

Request(k, p, mode) == [key |-> k, path |-> p, mode |-> mode]

\* a response: its status, what it carries (kind), and the bytes of a file,
\* the archive file or the manifest sent as its body
Reply(req, c, kind, d, z, m) ==
    [req |-> req, code |-> c, kind |-> kind, data |-> d, archive |-> z,
     manifest |-> m]

NoReply == Reply(Request("", Root, ""), 0, "none", <<>>, NoArchive, {})

\* the server is not part of the run
ServerOff ==
    /\ spc = "off"
    /\ sfiles = [k \in ServerKeys |-> EmptyFolder]
    /\ record = NoRecord
    /\ zips = [k \in ServerKeys |-> NoArchive]
    /\ cache_files = {}
    /\ record0 = NoRecord
    /\ zips0 = [k \in ServerKeys |-> NoArchive]
    /\ old_hash = EmptyRecord
    /\ new_hash = EmptyRecord
    /\ builds = [k \in ServerKeys |-> NoFuture]
    /\ npass = 0
    /\ edits = 0
    /\ saves = 0
    /\ handled = NoReply

-----------------------------------------------------------------------------
(* Responses to GET /{key}/{path}?download=1 *)

Suffix(d, n) == SubSeq(d, n + 1, Len(d))

\* exc: the transfer raised (before the status line when code = 0, otherwise
\* after `delivered` bytes of the body had been written)
Response(c, b, n, e) == [code |-> c, body |-> b, delivered |-> n, exc |-> e]

\* FileBrowserHandler._send_file: status 200 and the whole file; the Range
\* header of the request is never read
SendFile(node) == Response(200, node.data, Len(node.data), FALSE)

\* a server that honours Range as section 6 of the specification requires
RangeReply(node, offset) ==
    Response(206, Suffix(node.data, offset), Len(node.data) - offset, FALSE)

Complete(node, hasRange, offset) ==
    IF node.kind # "file" THEN {}
    ELSE {SendFile(node)} \cup
         (IF hasRange /\ offset < Len(node.data)
          THEN {RangeReply(node, offset)} ELSE {})

Interrupted(r) ==
    {Response(r.code, r.body, n, TRUE) : n \in 0..(Len(r.body) - 1)}

Failures == {Response(0, <<>>, 0, TRUE), Response(404, <<>>, 0, FALSE),
             Response(416, <<>>, 0, FALSE)}

Responses(node, hasRange, offset) ==
    Complete(node, hasRange, offset) \cup Failures \cup
    UNION {Interrupted(r) : r \in Complete(node, hasRange, offset)}

-----------------------------------------------------------------------------
(* download_file *)

NewTask(p) ==
    [path |-> p, status |-> "pending", started |-> 0, attempts |-> 0,
     result |-> "none", sent |-> -1, code |-> 0, body |-> <<>>,
     before |-> Absent]

\* os.path.getsize when the path exists, else 0
ExistingSize(l, p) == IF Exists(l, p) THEN Len(l[p].data) ELSE 0

\* the offset of the Range header, -1 when no header is sent
RangeHeader(l, p) == IF Exists(l, p) THEN ExistingSize(l, p) ELSE -1

\* variant: the destination is always opened for writing from its start
OpenModeTruncating(existing_size) == "wb"

OpenMode(existing_size) == IF existing_size > 0 THEN "ab" ELSE "wb"

\* open(local_path, mode) followed by the writes of the received chunks
WriteBody(node, mode, bytes) ==
    IF mode = "ab"
    THEN File(node.data \o bytes, node.readable)
    ELSE File(bytes, IF node.kind = "file" THEN node.readable ELSE TRUE)

Accepted(r) == r.code \in {200, 206}

\* one pass of the retry loop: the file after it, and whether it returned True
AttemptFile(node, r, existing_size) ==
    IF Accepted(r) /\ node.kind # "dir"
    THEN WriteBody(node, OpenMode(existing_size), SubSeq(r.body, 1, r.delivered))
    ELSE node

AttemptOk(node, r) == Accepted(r) /\ ~r.exc /\ node.kind # "dir"

\* A failure message on standard output: what failed, and the folder key and
\* the file path its text contains (<<>> where the text contains none).
\*   "[下載失敗] {folder_key}/{file_path}: HTTP {status}" and
\*   "[下載錯誤] {folder_key}/{file_path}: {e}"   Message("download", key, path)
\*   "無法取得服務器檔案列表: {key}"               Message("manifest", key, <<>>)
\*   "取得檔案列表失敗: {e}"                       Message("manifest", <<>>, <<>>)
\*   "❌ 下載或解壓失敗: {e}"                      Message("archive", <<>>, <<>>)
Message(what, key, path) == [what |-> what, key |-> key, path |-> path]

Running == {i \in 1..Len(tasks) : tasks[i].status = "running"}

\* a worker takes the task: os.makedirs(dirname, exist_ok=True) is outside try
StartTask(i) ==
    /\ pc = "fetch"
    /\ tasks[i].status = "pending"
    /\ Cardinality(Running) < max_workers
    /\ LET dir == Parent(tasks[i].path) IN
         IF MakedirsRaises(local, dir)
         THEN /\ tasks' = [tasks EXCEPT ![i].status = "done",
                                        ![i].started = @ + 1,
                                        ![i].result = "raised"]
              /\ local' = local
         ELSE /\ tasks' = [tasks EXCEPT ![i].status = "running",
                                        ![i].started = @ + 1]
              /\ local' = Makedirs(local, dir)
    /\ UNCHANGED <<published, runs>>
    /\ UNCHANGED printed
    /\ UNCHANGED serverVars
    /\ UNCHANGED <<pc, configFile0, configFile, serverNames, folder_names,
                   folders, idx, src, local0, manifest, strategy, ops>>

\* one iteration of `for attempt in range(max_retries)`
Attempt(i) ==
    /\ pc = "fetch"
    /\ tasks[i].status = "running"
    /\ tasks[i].attempts < max_retries
    /\ LET p == tasks[i].path
           node == local[p]
           size == ExistingSize(local, p)
           hdr == RangeHeader(local, p)
       IN \E r \in Responses(src[p], hdr # -1, size) :
            LET ok == AttemptOk(node, r)
                last == tasks[i].attempts + 1 = max_retries
            IN /\ local' = [local EXCEPT ![p] = AttemptFile(node, r, size)]
               /\ tasks' = [tasks EXCEPT
                     ![i].attempts = @ + 1,
                     ![i].sent = hdr,
                     ![i].code = r.code,
                     ![i].body = SubSeq(r.body, 1, r.delivered),
                     ![i].before = node,
                     ![i].result = IF ok THEN "true"
                                   ELSE IF last THEN "false" ELSE "none",
                     ![i].status = IF ok \/ last THEN "done" ELSE "running"]
               /\ printed' = IF ok THEN printed
                             ELSE printed \cup {Message("download", folders[idx].key, p)}
    /\ UNCHANGED <<published, runs>>
    /\ UNCHANGED serverVars
    /\ UNCHANGED <<pc, configFile0, configFile, serverNames, folder_names,
                   folders, idx, src, local0, manifest, strategy, ops>>

\* variant: the wait ends as soon as one task has failed or raised
FirstFailureOrAllFinished(ts) ==
    \/ \A i \in 1..Len(ts) : ts[i].status = "done"
    \/ \E i \in 1..Len(ts) : ts[i].result \in {"false", "raised"}

AllFinished(ts) == \A i \in 1..Len(ts) : ts[i].status = "done"

\* concurrent.futures.wait(futures) returns and the executor is left
PoolDone ==
    /\ pc = "fetch"
    /\ AllFinished(tasks)
    /\ pc' = "end"
    /\ UNCHANGED <<published, runs>>
    /\ UNCHANGED printed
    /\ UNCHANGED serverVars
    /\ UNCHANGED <<configFile0, configFile, serverNames, folder_names, folders,
                   idx, src, local0, local, manifest, strategy, ops, tasks>>

PoolNext ==
    \/ \E i \in 1..Len(tasks) : StartTask(i)
    \/ \E i \in 1..Len(tasks) : Attempt(i)
    \/ PoolDone

-----------------------------------------------------------------------------
(* Manifests as received: a JSON object whose values are hashes or objects *)

\* An entry is the chain of object keys leading to one value.  A key is a
\* string, held as the sequence of its "/"-separated names: the flat form
\* {"b/c": h} has one key <<"b","c">>, the nested form {"b": {"c": h}} has the
\* two keys <<"b">>, <<"c">>.  isdict marks a value that is an empty object.
Leaf(ks, h) == [keys |-> ks, isdict |-> FALSE, val |-> h]
EmptyDict(ks) == [keys |-> ks, isdict |-> TRUE, val |-> None]

GoodData == <<1, 2>>
StaleData == <<1>>

KeyChains == {<<PA>>, <<PBC>>, <<PB, <<"c">>>>}

EntryUniverse ==
    {Leaf(ks, h) : ks \in KeyChains, h \in {Md5(GoodData), ErrorSentinel}}
    \cup {EmptyDict(<<PB>>)}

IsChainPrefix(k1, k2) == Len(k1) <= Len(k2) /\ SubSeq(k2, 1, Len(k1)) = k1

\* what a JSON object can hold: a key has one value, a hash or an object
ValidManifest(m) ==
    \A i, j \in 1..Len(m) : i # j => ~IsChainPrefix(m[i].keys, m[j].keys)

Manifests ==
    {m \in UNION {[1..n -> EntryUniverse] : n \in 0..MaxEntries} :
        ValidManifest(m)}

RECURSIVE Flatten(_)
\* local_rel = f"{rel_path}/{name}" along the chain of keys
Flatten(ks) == IF ks = <<>> THEN <<>> ELSE Head(ks) \o Flatten(Tail(ks))

RECURSIVE count_server_files(_)
count_server_files(m) ==
    IF m = <<>> THEN 0
    ELSE (IF Head(m).isdict THEN 0 ELSE 1) + count_server_files(Tail(m))

-----------------------------------------------------------------------------
(* collect_download_tasks *)

DictLevels(e) == IF e.isdict THEN Len(e.keys) ELSE Len(e.keys) - 1

RECURSIVE EnterDicts(_, _, _)
\* os.makedirs(local_abs, exist_ok=True) for every object on the way down
EnterDicts(st, e, k) ==
    IF st.raised \/ k > DictLevels(e) THEN st
    ELSE LET dir == Flatten(SubSeq(e.keys, 1, k)) IN
         IF MakedirsRaises(st.local, dir)
         THEN [st EXCEPT !.raised = TRUE]
         ELSE EnterDicts([st EXCEPT !.local = Makedirs(st.local, dir)], e, k + 1)

\* variant: only the absence of a local hash makes a task
NeedsFetchIfMissing(local_md5, value) == local_md5 = None

\* `not local_md5 or local_md5 != value`
NeedsFetch(local_md5, value) == local_md5 = None \/ local_md5 # value

\* `if local_md5:` the file is removed, else it is reported missing
RemovesStale(local_md5) == local_md5 # None

VisitLeaf(st, e) ==
    LET p == Flatten(e.keys)
        local_md5 == IF Exists(st.local, p) THEN get_md5(st.local[p]) ELSE None
    IN IF NeedsFetch(local_md5, e.val)
       THEN [st EXCEPT !.local = IF RemovesStale(local_md5)
                                 THEN Remove(st.local, p) ELSE st.local,
                       !.tasks = Append(st.tasks, p)]
       ELSE st

VisitEntry(st, e) ==
    LET down == EnterDicts(st, e, 1) IN
    IF down.raised \/ e.isdict THEN down ELSE VisitLeaf(down, e)

RECURSIVE CollectFrom(_, _)
CollectFrom(st, m) ==
    IF m = <<>> \/ st.raised THEN st
    ELSE CollectFrom(VisitEntry(st, Head(m)), Tail(m))

\* the tasks, the local tree it leaves, and whether it raised
collect_download_tasks(m, l) ==
    CollectFrom([local |-> l, tasks |-> <<>>, raised |-> FALSE], m)

-----------------------------------------------------------------------------
(* download_and_extract_zip and the full replace *)

\* GET /{key}?download=1: the archive of the server's files, or anything
\* that fails to download or to open as an archive
ArchiveReplies(s) ==
    {[ok |-> TRUE, archive |-> s], [ok |-> FALSE, archive |-> EmptyTree]}

HasFileBelow(t, p) ==
    \E q \in LocalPaths : q # p /\ IsPrefixOf(p, q) /\ t[q].kind = "file"

\* zip_ref.extractall(extract_to)
ExtractAll(l, archive) ==
    [p \in LocalPaths |->
        IF archive[p].kind = "file" THEN File(archive[p].data, TRUE)
        ELSE IF HasFileBelow(archive, p) THEN Dir
        ELSE l[p]]

\* variant: the archive is extracted over the existing tree
FullReplaceInPlace(l, reply) ==
    [local |-> IF reply.ok THEN ExtractAll(l, reply.archive) ELSE l,
     ops |-> <<"rmtree", "makedirs", "GET archive">> \o
             (IF reply.ok THEN <<"extract">> ELSE <<>>)]

\* shutil.rmtree, os.makedirs, download_and_extract_zip
FullReplace(l, reply) ==
    [local |-> IF reply.ok THEN ExtractAll(Rmtree(l), reply.archive)
               ELSE Rmtree(l),
     ops |-> <<"rmtree", "makedirs", "GET archive">> \o
             (IF reply.ok THEN <<"extract">> ELSE <<>>)]

\* variant: the comparison is not strict
RatioAtLeastHalf(t, n) == 2 * t >= n

\* `ratio > 0.5` with ratio = len(tasks) / total_files, total_files > 0
RatioAboveHalf(t, n) == 2 * t > n

-----------------------------------------------------------------------------
(* Configuration bootstrap: module-level code of the client *)

\* A key string is the sequence of its pieces: "k1 force=true" is
\* <<"k1", " force=true">>.
ForceMarker == " force=true"

Name(b, m) == IF m THEN <<b, ForceMarker>> ELSE <<b>>

Line(text, path) == [text |-> text, path |-> path]

Registration(k, f) == [key |-> k, force |-> f]

\* f.write(f'{name}:""\n') for every name received
GenerateConfig(names) == [i \in 1..Len(names) |-> Line(names[i], "")]

\* `"force=true" in key`
HasForce(text) == \E i \in 1..Len(text) : text[i] = ForceMarker

\* key.replace(" force=true", "")
StripForce(text) == SelectSeq(text, LAMBDA t : t # ForceMarker)

ParseLine(line) == Registration(StripForce(line.text), HasForce(line.text))

\* folders[key] = {...}: a new key is appended, a known key is overwritten
Put(regs, r) ==
    IF \E i \in 1..Len(regs) : regs[i].key = r.key
    THEN [i \in 1..Len(regs) |-> IF regs[i].key = r.key THEN r ELSE regs[i]]
    ELSE Append(regs, r)

RECURSIVE ParseConfig(_, _)
ParseConfig(regs, lines) ==
    IF lines = <<>> THEN regs
    ELSE ParseConfig(Put(regs, ParseLine(Head(lines))), Tail(lines))

\* GET /config_names?json=1
FetchNames ==
    /\ pc = "boot"
    /\ \/ /\ folder_names' = serverNames
          /\ pc' = "gen"
       \/ /\ folder_names' = folder_names
          /\ pc' = "exit"
    /\ UNCHANGED <<published, runs>>
    /\ UNCHANGED printed
    /\ UNCHANGED serverVars
    /\ UNCHANGED <<configFile0, configFile, serverNames, folders, idx, src,
                   local0, local, manifest, strategy, ops, tasks>>

\* open(config_file, "w") and one line per name
WriteConfig ==
    /\ pc = "gen"
    /\ configFile' = GenerateConfig(folder_names)
    /\ pc' = "parse"
    /\ UNCHANGED <<published, runs>>
    /\ UNCHANGED printed
    /\ UNCHANGED serverVars
    /\ UNCHANGED <<configFile0, serverNames, folder_names, folders, idx, src,
                   local0, local, manifest, strategy, ops, tasks>>

\* the parse loop over the lines of config_file
ReadConfig ==
    /\ pc = "parse"
    /\ folders' = ParseConfig(<<>>, configFile)
    /\ idx' = 1
    /\ pc' = "loop"
    /\ UNCHANGED <<published, runs>>
    /\ UNCHANGED printed
    /\ UNCHANGED serverVars
    /\ UNCHANGED <<configFile0, configFile, serverNames, folder_names, src,
                   local0, local, manifest, strategy, ops, tasks>>

-----------------------------------------------------------------------------
(* Main loop: for key, info in folders.items() *)

LocalFiles == {File(d, r) : d \in {StaleData, GoodData}, r \in BOOLEAN}

\* what the destination directory of a key can hold when its sync begins
LocalTrees ==
    {l \in [LocalPaths -> {Absent, Dir} \cup LocalFiles] :
        /\ WellFormed(l)
        /\ l[PA].kind # "dir"
        /\ l[PB] \in {Absent, Dir, File(StaleData, TRUE)}
        /\ l[PBC].kind # "dir"
        /\ l[PD] = Absent}

\* the loop reaches the next key; its destination was created when the
\* configuration was read.  What the destination holds and which manifest the
\* server has for the key become known here.
EnterKey ==
    /\ pc = "loop"
    /\ idx <= Len(folders)
    /\ runs = <<>>
    /\ \E l \in LocalTrees : local0' = l /\ local' = l
    /\ published' \in Manifests
    /\ pc' = "key"
    /\ UNCHANGED runs
    /\ UNCHANGED printed
    /\ UNCHANGED serverVars
    /\ UNCHANGED <<configFile0, configFile, serverNames, folder_names, folders,
                   idx, src, manifest, strategy, ops, tasks>>

\* the body of the loop is left (`continue`, or its last statement)
EndOfBody == /\ pc' = "end"
             /\ idx' = idx

\* back at the loop header: the next registration, the body's names rebound
Continue ==
    /\ pc = "end"
    /\ pc' = "loop"
    /\ idx' = idx + 1
    /\ local0' = EmptyTree
    /\ local' = EmptyTree
    /\ manifest' = <<>>
    /\ strategy' = "none"
    /\ ops' = <<>>
    /\ tasks' = <<>>
    /\ published' = <<>>
    /\ printed' = {}
    /\ UNCHANGED runs
    /\ UNCHANGED serverVars
    /\ UNCHANGED <<configFile0, configFile, serverNames, folder_names, folders,
                   src>>

\* `if force:` ... `continue`
SyncForce ==
    /\ pc = "key"
    /\ folders[idx].force
    /\ \E reply \in ArchiveReplies(src) :
         LET fr == FullReplace(local, reply) IN
         /\ local' = fr.local
         /\ ops' = fr.ops
         /\ printed' = IF reply.ok THEN printed
                       ELSE printed \cup {Message("archive", <<>>, <<>>)}
    /\ strategy' = "force"
    /\ EndOfBody
    /\ UNCHANGED <<published, runs>>
    /\ UNCHANGED serverVars
    /\ UNCHANGED <<configFile0, configFile, serverNames, folder_names, folders,
                   src, local0, manifest, tasks>>

\* the manifest request is answered with another status than 200, or it
\* raises (no connection, timeout, a body that is not JSON)
ManifestFailed ==
    /\ pc = "key"
    /\ ~folders[idx].force
    /\ ops' = <<"GET manifest">>
    /\ strategy' = "nomanifest"
    /\ \E named \in {folders[idx].key, <<>>} :
         printed' = printed \cup {Message("manifest", named, <<>>)}
    /\ EndOfBody
    /\ UNCHANGED <<published, runs>>
    /\ UNCHANGED serverVars
    /\ UNCHANGED <<configFile0, configFile, serverNames, folder_names, folders,
                   src, local0, local, manifest, tasks>>

\* collect_download_tasks raises: nothing in the main program catches it
DiffRaises ==
    /\ pc = "key"
    /\ ~folders[idx].force
    /\ LET m == published IN
         LET d == collect_download_tasks(m, local) IN
         /\ d.raised
         /\ manifest' = m
         /\ local' = d.local
    /\ ops' = <<"GET manifest", "diff">>
    /\ strategy' = "raised"
    /\ pc' = "crashed"
    /\ UNCHANGED <<published, runs>>
    /\ UNCHANGED printed
    /\ UNCHANGED serverVars
    /\ UNCHANGED <<configFile0, configFile, serverNames, folder_names, folders,
                   idx, src, local0, tasks>>

\* `if total_files == 0:` ... `continue`
SyncEmpty ==
    /\ pc = "key"
    /\ ~folders[idx].force
    /\ LET m == published IN
         LET d == collect_download_tasks(m, local) IN
         /\ ~d.raised
         /\ count_server_files(m) = 0
         /\ manifest' = m
         /\ local' = d.local
         /\ tasks' = <<>>
    /\ ops' = <<"GET manifest", "diff">>
    /\ strategy' = "empty"
    /\ EndOfBody
    /\ UNCHANGED <<published, runs>>
    /\ UNCHANGED printed
    /\ UNCHANGED serverVars
    /\ UNCHANGED <<configFile0, configFile, serverNames, folder_names, folders,
                   src, local0>>

\* `if ratio > 0.5:`
SyncFullReplace ==
    /\ pc = "key"
    /\ ~folders[idx].force
    /\ LET m == published IN
         LET d == collect_download_tasks(m, local) IN
         /\ ~d.raised
         /\ count_server_files(m) # 0
         /\ RatioAboveHalf(Len(d.tasks), count_server_files(m))
         /\ manifest' = m
         /\ tasks' = [i \in 1..Len(d.tasks) |-> NewTask(d.tasks[i])]
         /\ \E reply \in ArchiveReplies(src) :
              LET fr == FullReplace(d.local, reply) IN
              /\ local' = fr.local
              /\ ops' = <<"GET manifest", "diff">> \o fr.ops
              /\ printed' = IF reply.ok THEN printed
                            ELSE printed \cup {Message("archive", <<>>, <<>>)}
    /\ strategy' = "full"
    /\ EndOfBody
    /\ UNCHANGED <<published, runs>>
    /\ UNCHANGED serverVars
    /\ UNCHANGED <<configFile0, configFile, serverNames, folder_names, folders,
                   src, local0>>

\* `elif tasks:` the tasks are submitted to the pool
SyncItemized ==
    /\ pc = "key"
    /\ ~folders[idx].force
    /\ LET m == published IN
         LET d == collect_download_tasks(m, local) IN
         /\ ~d.raised
         /\ count_server_files(m) # 0
         /\ ~RatioAboveHalf(Len(d.tasks), count_server_files(m))
         /\ d.tasks # <<>>
         /\ manifest' = m
         /\ local' = d.local
         /\ tasks' = [i \in 1..Len(d.tasks) |-> NewTask(d.tasks[i])]
    /\ ops' = <<"GET manifest", "diff", "pool">>
    /\ strategy' = "itemized"
    /\ pc' = "fetch"
    /\ UNCHANGED <<published, runs>>
    /\ UNCHANGED printed
    /\ UNCHANGED serverVars
    /\ UNCHANGED <<configFile0, configFile, serverNames, folder_names, folders,
                   idx, src, local0>>

\* `else:` every file is correct
SyncNoop ==
    /\ pc = "key"
    /\ ~folders[idx].force
    /\ LET m == published IN
         LET d == collect_download_tasks(m, local) IN
         /\ ~d.raised
         /\ count_server_files(m) # 0
         /\ ~RatioAboveHalf(Len(d.tasks), count_server_files(m))
         /\ d.tasks = <<>>
         /\ manifest' = m
         /\ local' = d.local
         /\ tasks' = <<>>
    /\ ops' = <<"GET manifest", "diff">>
    /\ strategy' = "noop"
    /\ EndOfBody
    /\ UNCHANGED <<published, runs>>
    /\ UNCHANGED printed
    /\ UNCHANGED serverVars
    /\ UNCHANGED <<configFile0, configFile, serverNames, folder_names, folders,
                   src, local0>>

\* the loop is exhausted and the program ends
Finish ==
    /\ pc = "loop"
    /\ idx > Len(folders)
    /\ pc' = "done"
    /\ UNCHANGED <<published, runs>>
    /\ UNCHANGED printed
    /\ UNCHANGED serverVars
    /\ UNCHANGED <<configFile0, configFile, serverNames, folder_names, folders,
                   idx, src, local0, local, manifest, strategy, ops, tasks>>

KeyOrder == <<"k1", "k2", "k3", "k4">>

\* the server's registered names: distinct keys, each with or without the
\* marker text in its name
NameLists ==
    UNION {{[i \in 1..n |-> Name(KeyOrder[i], mk[i])] : mk \in [1..n -> BOOLEAN]} :
              n \in 1..MaxKeys}

ConfigFiles0 ==
    {<<>>, <<Line(Name("k1", TRUE), "")>>, <<Line(Name("k1", FALSE), "")>>}

SrcTrees ==
    {[EmptyTree EXCEPT ![PA] = File(GoodData, TRUE)],
     [EmptyTree EXCEPT ![PA] = File(GoodData, TRUE), ![PB] = Dir,
                       ![PBC] = File(GoodData, TRUE)]}

Init ==
    /\ pc = "boot"
    /\ configFile0 \in ConfigFiles0
    /\ configFile = configFile0
    /\ serverNames \in NameLists
    /\ folder_names = <<>>
    /\ folders = <<>>
    /\ idx = 0
    /\ src \in SrcTrees
    /\ local0 = EmptyTree
    /\ local = EmptyTree
    /\ manifest = <<>>
    /\ strategy = "none"
    /\ ops = <<>>
    /\ tasks = <<>>
    /\ published = <<>>
    /\ runs = <<>>
    /\ printed = {}
    /\ ServerOff

Next ==
    \/ FetchNames
    \/ WriteConfig
    \/ ReadConfig
    \/ EnterKey
    \/ SyncForce
    \/ ManifestFailed
    \/ DiffRaises
    \/ SyncEmpty
    \/ SyncFullReplace
    \/ SyncItemized
    \/ SyncNoop
    \/ \E i \in 1..Len(tasks) : StartTask(i)
    \/ \E i \in 1..Len(tasks) : Attempt(i)
    \/ PoolDone
    \/ Continue
    \/ Finish

Spec == Init /\ [][Next]_vars

-----------------------------------------------------------------------------
(* download_file on its own: one task, any destination, any source *)

FetchTrees ==
    {[EmptyTree EXCEPT ![PA] = n] :
        n \in {Absent} \cup {File(d, TRUE) : d \in Contents(MaxLen)}}

FetchInit ==
    /\ pc = "fetch"
    /\ configFile0 = <<>>
    /\ configFile = <<Line(Name("k1", FALSE), "")>>
    /\ serverNames = <<Name("k1", FALSE)>>
    /\ folder_names = serverNames
    /\ folders = <<Registration(<<"k1">>, FALSE)>>
    /\ idx = 1
    /\ src \in {[EmptyTree EXCEPT ![PA] = File(d, TRUE)] :
                   d \in Contents(MaxLen) \ {<<>>}}
    /\ local0 \in FetchTrees
    /\ local = local0
    /\ manifest = <<>>
    /\ strategy = "itemized"
    /\ ops = <<>>
    /\ tasks = <<NewTask(PA)>>
    /\ published = <<>>
    /\ runs = <<>>
    /\ printed = {}
    /\ ServerOff

FetchSpec == FetchInit /\ [][PoolNext]_vars

-----------------------------------------------------------------------------
(* The worker pool on its own: up to MaxTasks tasks of one folder *)

TaskPaths == {PA, PBC, PD}

OneByte == <<1>>

PoolSrc ==
    [p \in LocalPaths |-> IF p = PB THEN Dir ELSE File(OneByte, TRUE)]

\* the destination after the diff: empty, or with a file where the
\* directory of a task has to be
PoolTrees == {EmptyTree, [EmptyTree EXCEPT ![PB] = File(StaleData, TRUE)]}

Distinct(s) == \A i, j \in 1..Len(s) : i # j => s[i] # s[j]

TaskLists ==
    {s \in UNION {[1..n -> TaskPaths] : n \in 1..MaxTasks} : Distinct(s)}

PoolInit ==
    /\ pc = "fetch"
    /\ configFile0 = <<>>
    /\ configFile = <<Line(Name("k1", FALSE), "")>>
    /\ serverNames = <<Name("k1", FALSE)>>
    /\ folder_names = serverNames
    /\ folders = <<Registration(<<"k1">>, FALSE)>>
    /\ idx = 1
    /\ src = PoolSrc
    /\ local0 \in PoolTrees
    /\ local = local0
    /\ manifest = <<>>
    /\ strategy = "itemized"
    /\ ops = <<"GET manifest", "diff", "pool">>
    /\ \E s \in TaskLists : tasks = [i \in 1..Len(s) |-> NewTask(s[i])]
    /\ published = <<>>
    /\ runs = <<>>
    /\ printed = {}
    /\ ServerOff

\* Every submitted task is run by a pool thread, every request ends (each
\* has a timeout), and wait() returns once all futures are done.
PoolFairness ==
    /\ WF_vars(\E i \in 1..Len(tasks) : StartTask(i))
    /\ WF_vars(\E i \in 1..Len(tasks) : Attempt(i))
    /\ WF_vars(PoolDone)

LiveSpec == PoolInit /\ [][PoolNext]_vars /\ PoolFairness

-----------------------------------------------------------------------------
(* The client run twice on one machine against an unchanged server *)

\* every request of the run was answered and every transfer returned success
RunClean ==
    \/ strategy \in {"empty", "noop"}
    \/ strategy = "itemized" /\ \A i \in 1..Len(tasks) : tasks[i].result = "true"
    \/ strategy = "full" /\ \E i \in 1..Len(ops) : ops[i] = "extract"

RunSummary == [strategy |-> strategy, clean |-> RunClean]

\* the loop over the single registration is exhausted: the program ends and
\* the destination stays on disk as the sync left it
LastKeyDone ==
    /\ pc = "end"
    /\ idx = Len(folders)
    /\ pc' = "done"
    /\ UNCHANGED <<published, runs>>
    /\ UNCHANGED printed
    /\ UNCHANGED serverVars
    /\ UNCHANGED <<configFile0, configFile, serverNames, folder_names, folders,
                   idx, src, local0, local, manifest, strategy, ops, tasks>>

\* the program is started again: module state is fresh, the configuration
\* file and the destination are what the first run left, the server is as
\* it was
Rerun ==
    /\ pc \in {"done", "crashed"}
    /\ runs = <<>>
    /\ runs' = <<RunSummary>>
    /\ pc' = "boot"
    /\ configFile0' = configFile
    /\ folder_names' = <<>>
    /\ folders' = <<>>
    /\ idx' = 0
    /\ local0' = local
    /\ manifest' = <<>>
    /\ strategy' = "none"
    /\ ops' = <<>>
    /\ tasks' = <<>>
    /\ printed' = {}
    /\ UNCHANGED <<configFile, serverNames, src, local, published>>
    /\ UNCHANGED serverVars

\* the loop of the second run reaches the key
EnterKeyAgain ==
    /\ pc = "loop"
    /\ idx <= Len(folders)
    /\ runs # <<>>
    /\ local0' = local
    /\ pc' = "key"
    /\ UNCHANGED <<published, runs>>
    /\ UNCHANGED printed
    /\ UNCHANGED serverVars
    /\ UNCHANGED <<configFile0, configFile, serverNames, folder_names, folders,
                   idx, src, local, manifest, strategy, ops, tasks>>

TwoRunInit ==
    /\ Init
    /\ configFile0 = <<>>
    /\ serverNames = <<Name("k1", FALSE)>>

TwoRunNext ==
    \/ FetchNames
    \/ WriteConfig
    \/ ReadConfig
    \/ EnterKey
    \/ EnterKeyAgain
    \/ ManifestFailed
    \/ DiffRaises
    \/ SyncEmpty
    \/ SyncFullReplace
    \/ SyncItemized
    \/ SyncNoop
    \/ \E i \in 1..Len(tasks) : StartTask(i)
    \/ \E i \in 1..Len(tasks) : Attempt(i)
    \/ PoolDone
    \/ LastKeyDone
    \/ Rerun

TwoRunSpec == TwoRunInit /\ [][TwoRunNext]_vars

-----------------------------------------------------------------------------
(* The server: ignore rules, scan, zip_folder *)

IGNORE_PREFIXES == {"serveronly_"}
IGNORE_NAMES == {<<"ignore_me.txt">>}

\* file_name.startswith(p)
StartsWith(name, prefix) == name # <<>> /\ name[1] = prefix

should_ignore(file_name) ==
    \/ \E pre \in IGNORE_PREFIXES : StartsWith(file_name, pre)
    \/ file_name \in IGNORE_NAMES

\* os.path.basename(real_path): "" for the folder itself
Basename(path) == IF path = Root THEN <<>> ELSE path[Len(path)]

\* server get_md5: the digest, or "error" when the file cannot be read
server_get_md5(node) ==
    IF node.kind = "file" /\ node.readable THEN Md5(node.data)
    ELSE ErrorSentinel

\* the order in which os.walk yields the files of a folder
WalkOrder == <<SA, SB, SG>>

\* the files os.walk yields, without the ignored names
Listed(tree) ==
    SelectSeq(WalkOrder,
              LAMBDA q : tree[q].kind = "file" /\ ~should_ignore(Basename(q)))

Entry(path, md5) == [path |-> path, md5 |-> md5]

\* {relative path: md5} of the files that are not ignored
scan_folder_dict(tree) ==
    {Entry(Listed(tree)[i], server_get_md5(tree[Listed(tree)[i]])) :
        i \in 1..Len(Listed(tree))}

\* {} when the file is missing or is not valid JSON
load_old_hash(rec) == IF rec.state = "ok" THEN rec.entries ELSE EmptyRecord

\* variant: every key is rebuilt by every pass
IsChangedAlways(key, old, new) == TRUE

\* `key not in old_hash or new_hash[key] != old_hash[key]`
IsChanged(key, old, new) == key \notin DOMAIN old \/ new[key] # old[key]

Member(path, data) == [path |-> path, data |-> data]

\* variant: only a build that succeeded is taken from as_completed without
\* ending the pass
ResultHandledIfDone(status) == status = "done"

\* try: future.result() ... except Exception: the failure is printed
ResultHandled(status) == status \in {"done", "failed"}

ChangedKeys == {k \in ServerKeys : builds[k].status # "idle"}

Building == {k \in ServerKeys : builds[k].status = "running"}

Min(a, b) == IF a < b THEN a ELSE b

-----------------------------------------------------------------------------
(* The server: create_zip_cache *)

zip_max_workers == 4

\* load_old_hash, the scan of every folder, and the submission of one
\* zip_folder call per changed key
ScanFolders ==
    /\ spc = "down"
    /\ npass < MaxPasses
    /\ LET old == load_old_hash(record)
           new == [k \in ServerKeys |-> scan_folder_dict(sfiles[k])]
       IN /\ old_hash' = old
          /\ new_hash' = new
          /\ builds' = [k \in ServerKeys |->
                           IF IsChanged(k, old, new)
                           THEN Future("queued", <<>>, FALSE) ELSE NoFuture]
    /\ record0' = record
    /\ zips0' = zips
    /\ cache_files' = {}
    /\ npass' = npass + 1
    /\ saves' = 0
    /\ handled' = NoReply
    /\ spc' = "pool"
    /\ UNCHANGED <<sfiles, record, zips, edits>>
    /\ UNCHANGED clientVars

\* zip_folder begins: the list of files is taken and ZipFile(zip_path, "w")
\* opens the archive file of the key, cutting it to length zero
BuildBegin(k) ==
    /\ spc = "pool"
    /\ builds[k].status = "queued"
    /\ Cardinality(Building) < Min(zip_max_workers, Cardinality(ChangedKeys))
    /\ builds' = [builds EXCEPT ![k] = Future("running", Listed(sfiles[k]), FALSE)]
    /\ zips' = [zips EXCEPT ![k] = Archive("writing", {}, FALSE)]
    /\ UNCHANGED <<spc, sfiles, record, cache_files, record0, zips0, old_hash,
                   new_hash, npass, edits, saves, handled>>
    /\ UNCHANGED clientVars

\* zipf.write(abs_path, rel_path) for the next file.  A file that is gone or
\* cannot be read raises and the `with` block closes the archive with the
\* members written so far.
BuildWrite(k) ==
    /\ spc = "pool"
    /\ builds[k].status = "running"
    /\ builds[k].todo # <<>>
    /\ LET q == Head(builds[k].todo)
           node == sfiles[k][q]
       IN \/ /\ node.kind = "file" /\ node.readable
             /\ zips' = [zips EXCEPT
                   ![k].members = @ \cup {Member(q, node.data)}]
             /\ builds' = [builds EXCEPT ![k].todo = Tail(@)]
          \/ /\ ~(node.kind = "file" /\ node.readable)
             /\ zips' = [zips EXCEPT ![k].state = "closed"]
             /\ builds' = [builds EXCEPT ![k] = Future("failed", <<>>, FALSE)]
    /\ UNCHANGED <<spc, sfiles, record, cache_files, record0, zips0, old_hash,
                   new_hash, npass, edits, saves, handled>>
    /\ UNCHANGED clientVars

\* every listed file was written: the archive is closed
BuildEnd(k) ==
    /\ spc = "pool"
    /\ builds[k].status = "running"
    /\ builds[k].todo = <<>>
    /\ zips' = [zips EXCEPT ![k].state = "closed", ![k].whole = TRUE]
    /\ builds' = [builds EXCEPT ![k].status = "done"]
    /\ UNCHANGED <<spc, sfiles, record, cache_files, record0, zips0, old_hash,
                   new_hash, npass, edits, saves, handled>>
    /\ UNCHANGED clientVars

\* the as_completed loop takes a finished future
Collect(k) ==
    /\ spc = "pool"
    /\ builds[k].status \in {"done", "failed"}
    /\ ~builds[k].collected
    /\ IF ResultHandled(builds[k].status)
       THEN /\ builds' = [builds EXCEPT ![k].collected = TRUE]
            /\ spc' = spc
       ELSE /\ builds' = builds
            /\ spc' = "down"
    /\ UNCHANGED <<sfiles, record, zips, cache_files, record0, zips0, old_hash,
                   new_hash, npass, edits, saves, handled>>
    /\ UNCHANGED clientVars

\* the executor is left; cache_files[key] is set for every key
MapCache ==
    /\ spc = "pool"
    /\ \A k \in ChangedKeys : builds[k].collected
    /\ cache_files' = ServerKeys
    /\ spc' = "save"
    /\ UNCHANGED <<sfiles, record, zips, record0, zips0, old_hash, new_hash,
                   builds, npass, edits, saves, handled>>
    /\ UNCHANGED clientVars

\* save_hash_record: open(HASH_RECORD_FILE, "w") cuts the file
SaveBegin ==
    /\ spc = "save"
    /\ record' = TornRecord
    /\ spc' = "saving"
    /\ UNCHANGED <<sfiles, zips, cache_files, record0, zips0, old_hash,
                   new_hash, builds, npass, edits, saves, handled>>
    /\ UNCHANGED clientVars

\* json.dump(new_hash) is written and the file closed; serve_forever
SaveEnd ==
    /\ spc = "saving"
    /\ record' = HashRecord("ok", new_hash)
    /\ saves' = saves + 1
    /\ spc' = "serving"
    /\ UNCHANGED <<sfiles, zips, cache_files, record0, zips0, old_hash,
                   new_hash, builds, npass, edits, handled>>
    /\ UNCHANGED clientVars

\* the process is killed or shut down: what it held in memory is gone (the
\* pass-start copies record0 and zips0 are dropped with it), the files stay
\* as they are
Stop ==
    /\ spc \in {"pool", "save", "saving", "serving"}
    /\ handled.kind = "none"
    /\ spc' = "down"
    /\ cache_files' = {}
    /\ old_hash' = EmptyRecord
    /\ new_hash' = EmptyRecord
    /\ builds' = [k \in ServerKeys |-> NoFuture]
    /\ record0' = NoRecord
    /\ zips0' = [k \in ServerKeys |-> NoArchive]
    /\ saves' = 0
    /\ UNCHANGED <<sfiles, record, zips, npass, edits, handled>>
    /\ UNCHANGED clientVars

\* what the operator of the server can put at a path of a served folder
NodesAt(q) ==
    IF q = SA THEN {Absent, File(GoodData, TRUE), File(StaleData, TRUE)}
    ELSE IF q = SB THEN {Absent, File(GoodData, TRUE), File(GoodData, FALSE)}
    ELSE {Absent, File(GoodData, TRUE)}

\* a file of a served folder is added, replaced, removed or made unreadable,
\* while the server is serving or is not running
Modify(k) ==
    /\ spc \in {"down", "serving"}
    /\ handled.kind = "none"
    /\ edits < MaxEdits
    /\ \E q \in ServerPaths : \E n \in NodesAt(q) :
          /\ sfiles[k][q] # n
          /\ sfiles' = [sfiles EXCEPT ![k][q] = n]
    /\ edits' = edits + 1
    /\ UNCHANGED <<spc, record, zips, cache_files, record0, zips0, old_hash,
                   new_hash, builds, npass, saves, handled>>
    /\ UNCHANGED clientVars

-----------------------------------------------------------------------------
(* The server: FileBrowserHandler.do_GET for the paths of a registered key *)

\* send_homepage through _send_html: status 200
Homepage(req) == Reply(req, 200, "home", <<>>, NoArchive, {})

\* send_error(404, ...)
NotFound(req) == Reply(req, 404, "error", <<>>, NoArchive, {})

\* _send_file(real_path, True): 200 and the bytes of the file; when the file
\* cannot be opened the headers are already sent and no body follows
SendPath(req, node) ==
    IF node.readable THEN Reply(req, 200, "file", node.data, NoArchive, {})
    ELSE Reply(req, 200, "broken", <<>>, NoArchive, {})

\* _send_file(zip_path, True)
SendArchive(req, z) == Reply(req, 200, "archive", <<>>, z, {})

\* hash_record.get(key, scan_folder_dict(real_path)), or the scan when the
\* Hash Record cannot be read
ManifestFor(key) ==
    IF record.state = "ok" /\ key \in DOMAIN record.entries
    THEN record.entries[key]
    ELSE scan_folder_dict(sfiles[key])

IsFile(key, path) == path \in ServerPaths /\ sfiles[key][path].kind = "file"

\* the folder of the key; the folders of the model have no sub-directories
IsDir(key, path) == path = Root

do_GET(req) ==
    IF should_ignore(Basename(req.path)) THEN NotFound(req)
    ELSE IF IsFile(req.key, req.path)
    THEN SendPath(req, sfiles[req.key][req.path])
    ELSE IF IsDir(req.key, req.path) /\ req.mode = "download"
    THEN IF req.key \in cache_files /\ zips[req.key].state # "none"
         THEN SendArchive(req, zips[req.key])
         ELSE Homepage(req)
    ELSE IF IsDir(req.key, req.path) /\ req.mode = "json"
    THEN Reply(req, 200, "json", <<>>, NoArchive, ManifestFor(req.key))
    ELSE IF IsDir(req.key, req.path)
    THEN Reply(req, 200, "listing", <<>>, NoArchive, {})
    ELSE Homepage(req)

\* the folder of a key in its three modes, and single paths: existing or
\* not, ignored or not
Requests ==
    {Request(k, Root, mode) : k \in ServerKeys,
                              mode \in {"download", "json", "plain"}}
    \cup {Request(k, q, "download") : k \in ServerKeys,
                                      q \in {SA, SB, SG, SX, SZ}}

\* a request arrives and is answered
Get ==
    /\ spc = "serving"
    /\ handled.kind = "none"
    /\ \E req \in Requests : handled' = do_GET(req)
    /\ UNCHANGED <<spc, sfiles, record, zips, cache_files, record0, zips0,
                   old_hash, new_hash, builds, npass, edits, saves>>
    /\ UNCHANGED clientVars

\* the handler returns
Handled ==
    /\ handled.kind # "none"
    /\ handled' = NoReply
    /\ UNCHANGED <<spc, sfiles, record, zips, cache_files, record0, zips0,
                   old_hash, new_hash, builds, npass, edits, saves>>
    /\ UNCHANGED clientVars

-----------------------------------------------------------------------------
(* The server process over its restarts *)

\* the client is not part of the run
ClientOff ==
    /\ pc = "off"
    /\ configFile0 = <<>>
    /\ configFile = <<>>
    /\ serverNames = <<>>
    /\ folder_names = <<>>
    /\ folders = <<>>
    /\ idx = 0
    /\ src = EmptyTree
    /\ local0 = EmptyTree
    /\ local = EmptyTree
    /\ manifest = <<>>
    /\ strategy = "none"
    /\ ops = <<>>
    /\ tasks = <<>>
    /\ published = <<>>
    /\ runs = <<>>
    /\ printed = {}

\* what a served folder holds when the server is first started
FolderTrees ==
    {t \in [ServerPaths -> {Absent} \cup LocalFiles] :
        /\ t[SA] = File(GoodData, TRUE)
        /\ t[SB] \in NodesAt(SB)
        /\ t[SG] \in NodesAt(SG)}

InitialFolders ==
    {f \in [ServerKeys -> FolderTrees] :
        f["k2"][SG] = Absent /\ f["k2"][SB] # File(GoodData, TRUE)}

\* a fresh installation: no Hash Record, no archive
ServerInit ==
    /\ ClientOff
    /\ spc = "down"
    /\ sfiles \in InitialFolders
    /\ record = NoRecord
    /\ zips = [k \in ServerKeys |-> NoArchive]
    /\ cache_files = {}
    /\ record0 = NoRecord
    /\ zips0 = [k \in ServerKeys |-> NoArchive]
    /\ old_hash = EmptyRecord
    /\ new_hash = EmptyRecord
    /\ builds = [k \in ServerKeys |-> NoFuture]
    /\ npass = 0
    /\ edits = 0
    /\ saves = 0
    /\ handled = NoReply

PassNext ==
    \/ ScanFolders
    \/ \E k \in ServerKeys : BuildBegin(k)
    \/ \E k \in ServerKeys : BuildWrite(k)
    \/ \E k \in ServerKeys : BuildEnd(k)
    \/ \E k \in ServerKeys : Collect(k)
    \/ MapCache
    \/ SaveBegin
    \/ SaveEnd

ServerNext ==
    \/ PassNext
    \/ Stop
    \/ \E k \in ServerKeys : Modify(k)
    \/ Get
    \/ Handled

ServerSpec == ServerInit /\ [][ServerNext]_vars

\* One cache pass without interference: the main thread and the executor's
\* threads keep running, each zip_folder call ends, nobody kills the process.
PassFairness ==
    /\ WF_vars(ScanFolders)
    /\ WF_vars(\E k \in ServerKeys : BuildBegin(k))
    /\ WF_vars(\E k \in ServerKeys : BuildWrite(k))
    /\ WF_vars(\E k \in ServerKeys : BuildEnd(k))
    /\ WF_vars(\E k \in ServerKeys : Collect(k))
    /\ WF_vars(MapCache)
    /\ WF_vars(SaveBegin)
    /\ WF_vars(SaveEnd)

ServerLiveSpec == ServerInit /\ [][PassNext]_vars /\ PassFairness

\* a file of a served folder is added, replaced, removed or made unreadable
\* while create_zip_cache is between its scan and the end of its builds
ModifyInPass(k) ==
    /\ spc = "pool"
    /\ edits < MaxEdits
    /\ \E q \in ServerPaths : \E n \in NodesAt(q) :
          /\ sfiles[k][q] # n
          /\ sfiles' = [sfiles EXCEPT ![k][q] = n]
    /\ edits' = edits + 1
    /\ UNCHANGED <<spc, record, zips, cache_files, record0, zips0, old_hash,
                   new_hash, builds, npass, saves, handled>>
    /\ UNCHANGED clientVars

\* one cache pass of a fresh installation with the folders changing under it
ServerRaceSpec ==
    ServerInit /\ [][PassNext \/ \E k \in ServerKeys : ModifyInPass(k)]_vars

-----------------------------------------------------------------------------
(* Properties *)

TaskIds == 1..Len(tasks)

IsProperPrefix(d, s) == 0 < Len(d) /\ Len(d) < Len(s) /\ SubSeq(s, 1, Len(d)) = d

\* the manifest's entries that are files, and the path each one names
Leaves(m) == {i \in 1..Len(m) : ~m[i].isdict}

LeafPath(m, i) == Flatten(m[i].keys)

\* the branches of the main loop that come after a received manifest
Diffed == strategy \in {"empty", "full", "itemized", "noop"}

\* the registration the body of the main loop is working on
CurrentKey == folders[idx]

Occurs(op) == \E i \in 1..Len(ops) : ops[i] = op

\* C1: whenever download_file returns True for a destination that held the
\* first K bytes of the source (0 < K < S), the destination equals the source.
C1_ResumeIdentical ==
    \A i \in TaskIds :
        (/\ tasks[i].result = "true"
         /\ local0[tasks[i].path].kind = "file"
         /\ IsProperPrefix(local0[tasks[i].path].data, src[tasks[i].path].data))
        => local[tasks[i].path].data = src[tasks[i].path].data

\* C2: an attempt made on an N-byte destination (N > 0) sends Range: bytes=N-,
\* and a 206 answer is appended after the N bytes: the file is the old bytes
\* followed by the received ones, and a completed 206 from offset N leaves N
\* plus the length of the source's remainder.
C2_AppendOn206 ==
    \A i \in TaskIds :
        LET t == tasks[i]
            N == Len(t.before.data)
        IN (t.attempts > 0 /\ t.before.kind = "file" /\ N > 0) =>
              /\ t.sent = N
              /\ t.code = 206 =>
                    /\ local[t.path].data = t.before.data \o t.body
                    /\ SubSeq(local[t.path].data, 1, N) = t.before.data
                    /\ Len(local[t.path].data) = N + Len(t.body)
              /\ (t.code = 206 /\ t.result = "true") =>
                    /\ t.body = Suffix(src[t.path].data, N)
                    /\ Len(local[t.path].data) = Len(src[t.path].data)

C2_Witness ==
    \E i \in TaskIds :
        /\ tasks[i].result = "true"
        /\ tasks[i].code = 206
        /\ tasks[i].sent = 1
        /\ tasks[i].before = File(<<1>>, TRUE)
        /\ src[tasks[i].path].data = <<1, 2, 1>>
        /\ local[tasks[i].path].data = <<1, 2, 1>>

\* C3: a task issues at most max_retries requests, ends with True on the first
\* accepted and completed answer, with False only after max_retries failed
\* attempts, and never ends by raising.
C3_BoundedRetriesNeverRaises ==
    \A i \in TaskIds :
        /\ tasks[i].attempts <= max_retries
        /\ tasks[i].result # "raised"
        /\ tasks[i].result = "false" => tasks[i].attempts = max_retries
        /\ tasks[i].status = "done" => tasks[i].result \in {"true", "false"}

\* C4: once the tasks are submitted, every one of them is started exactly once
\* and finishes, whatever the others return or raise, and the pass then ends.
C4_AllTasksAttempted ==
    /\ [](\A i \in TaskIds : tasks[i].started <= 1)
    /\ (pc = "fetch") ~>
          (/\ pc = "end"
           /\ \A i \in TaskIds : tasks[i].started = 1 /\ tasks[i].status = "done")

C4_Witness ==
    /\ pc = "end"
    /\ Len(tasks) >= 2
    /\ \E i, j \in TaskIds :
          /\ tasks[i].result \in {"false", "raised"}
          /\ tasks[j].result = "true"
          /\ tasks[i].started = 1
          /\ tasks[j].started = 1

\* C5: with n > 0 manifest files and t tasks, a non-force folder is fully
\* replaced iff 2t > n; it is fetched item by item iff 0 < 2t <= n; with t = 0
\* neither the archive nor a file is requested.
C5_StrategySelection ==
    LET n == Cardinality(Leaves(manifest))
        t == Len(tasks)
    IN (Diffed /\ n > 0) =>
          /\ ~CurrentKey.force
          /\ strategy = "full" <=> 2 * t > n
          /\ strategy = "itemized" <=> (t > 0 /\ 2 * t <= n)
          /\ Occurs("GET archive") <=> 2 * t > n
          /\ Occurs("pool") <=> (t > 0 /\ 2 * t <= n)
          /\ t = 0 => (strategy = "noop" /\ ops = <<"GET manifest", "diff">>)

C5_Witness ==
    /\ strategy = "itemized"
    /\ Cardinality(Leaves(manifest)) = 2
    /\ Len(tasks) = 1

\* C6: a key registered with force is always synced by: rmtree, makedirs,
\* archive request, extraction; the manifest is never requested, no diff
\* runs, and nothing of the former local tree remains.
C6_ForceFullReplace ==
    (strategy # "none") =>
        /\ CurrentKey.force <=> strategy = "force"
        /\ strategy = "force" =>
              /\ ops \in {<<"rmtree", "makedirs", "GET archive">>,
                          <<"rmtree", "makedirs", "GET archive", "extract">>}
              /\ manifest = <<>>
              /\ tasks = <<>>
              /\ local = IF Occurs("extract")
                         THEN ExtractAll(EmptyTree, src) ELSE EmptyTree

C6_Witness ==
    /\ strategy = "force"
    /\ local0 = src
    /\ Occurs("extract")
    /\ local = src

\* C7: a key that carried the force=true marker in the configuration file
\* before the run is registered with force = True when the sync loop runs.
C7_PersistedForceHonoured ==
    (pc \in {"loop", "key", "fetch", "end", "done", "crashed"}) =>
        \A i \in 1..Len(configFile0) : \A j \in 1..Len(folders) :
            (/\ HasForce(configFile0[i].text)
             /\ folders[j].key = StripForce(configFile0[i].text))
            => folders[j].force

\* C8: after a manifest without any file entry was received for a non-force
\* key, the local tree is as it was, nothing was requested besides the
\* manifest, and the loop has moved on.
C8_EmptyManifestNoEffect ==
    (strategy \in {"empty", "raised", "full", "itemized", "noop"}
     /\ Leaves(manifest) = {}) =>
        /\ strategy = "empty"
        /\ local = local0
        /\ ops = <<"GET manifest", "diff">>
        /\ tasks = <<>>
        /\ pc = "end"

\* a manifest in which every relative path is named by one entry
IsMapping(m) ==
    \A i, j \in Leaves(m) : i # j => LeafPath(m, i) # LeafPath(m, j)

Matches(node, h) == node.kind = "file" /\ node.readable /\ Md5(node.data) = h

C10_NoStaleFileAfterDiff ==
    (strategy = "itemized" /\ \A i \in TaskIds : tasks[i].status = "pending") =>
        \A k \in Leaves(manifest) :
            \/ local[LeafPath(manifest, k)].kind = "absent"
            \/ get_md5(local[LeafPath(manifest, k)]) = manifest[k].val

\* the relative paths that are entries of the manifest
ManifestPaths(m) == {LeafPath(m, i) : i \in Leaves(m)}

\* C11: in a pass that does not take the full replace (not force, ratio at
\* most 0.5), a local file whose relative path is not an entry of the manifest
\* is left as it was by the diff and by the itemized fetch.
C11_UnlistedFilesUntouched ==
    (strategy \in {"empty", "raised", "itemized", "noop"}) =>
        \A p \in LocalPaths :
            (local0[p].kind = "file" /\ p \notin ManifestPaths(manifest))
            => local[p] = local0[p]

C11_Witness ==
    /\ strategy = "itemized"
    /\ pc = "end"
    /\ \E i \in TaskIds : tasks[i].result = "true"
    /\ local # local0
    /\ \E p \in LocalPaths :
          /\ local0[p].kind = "file"
          /\ p \notin ManifestPaths(manifest)
          /\ local[p] = local0[p]

\* C13: after an itemized sync in which every task returned True, every path
\* of the manifest holds a local file whose hash is the manifest's (manifests
\* that map each path once, to a hash).
C13_ItemizedSyncConverges ==
    (/\ strategy = "itemized"
     /\ pc = "end"
     /\ IsMapping(manifest)
     /\ \A k \in Leaves(manifest) : manifest[k].val # ErrorSentinel
     /\ \A i \in TaskIds : tasks[i].result = "true")
    => \A k \in Leaves(manifest) :
           Matches(local[LeafPath(manifest, k)], manifest[k].val)

\* C20: a 404 answer to a single-file request ends the task at once: one
\* request was made and the task is reported failed.
C20_NotFoundNotRetried ==
    \A i \in TaskIds :
        (tasks[i].attempts > 0 /\ tasks[i].code = 404) =>
            /\ tasks[i].attempts = 1
            /\ tasks[i].status = "done"
            /\ tasks[i].result = "false"

\* the server's files are the ones its manifest describes
Describes(m, s) ==
    \A k \in Leaves(m) : Matches(s[LeafPath(m, k)], m[k].val)

\* C12: when the client is run a second time against the unchanged server,
\* after a first run whose requests all succeeded, the diff of the second run
\* yields no task for a non-force folder (the manifest maps each path once,
\* to the hash of the file the server holds there).
C12_SecondRunNoTasks ==
    (/\ runs # <<>>
     /\ strategy \in {"empty", "full", "itemized", "noop"}
     /\ ~CurrentKey.force
     /\ runs[1].clean
     /\ IsMapping(manifest)
     /\ Describes(manifest, src))
    => tasks = <<>>

\* an archive file that was written to its end and closed
IsComplete(z) == z.state = "closed" /\ z.whole

\* zipf.write raises on the first listed file that cannot be read
HasUnreadable(tree) ==
    \E i \in 1..Len(Listed(tree)) : ~tree[Listed(tree)[i]].readable

PassRunning == spc \in {"pool", "save", "saving", "serving"}

\* C14: whenever the archive of a key is served, the bytes sent are those of
\* one completely built archive, never a partially written file, also after a
\* build of the key that failed or was cut off.
C14_ServedArchiveComplete ==
    (handled.kind = "archive") => IsComplete(handled.archive)

\* C15: a pass writes the Hash Record once, after every submitted build has
\* finished, and (first pass of a fresh installation) the record never holds
\* an entry for a key whose archive was not completely built.
C15_RecordOnlyForBuiltArchives ==
    /\ saves <= 1
    /\ (PassRunning /\ saves = 1) =>
          \A k \in ChangedKeys : builds[k].status \in {"done", "failed"}
    /\ (PassRunning /\ saves = 0 /\ spc # "saving") => record = record0
    /\ (npass = 1 /\ record.state = "ok") =>
          \A k \in DOMAIN record.entries : IsComplete(zips[k])

\* C16: when the build of one key raises, the build of every other changed
\* key still runs to its end (its outcome depends on its own folder only),
\* and the pass completes: cache_files holds every key, the Hash Record is
\* saved and the server serves.
C16_BuildFailureIsolated ==
    /\ [](spc = "serving" =>
            /\ \A k \in ChangedKeys :
                  /\ builds[k].collected
                  /\ builds[k].status =
                        (IF HasUnreadable(sfiles[k]) THEN "failed" ELSE "done")
                  /\ builds[k].status = "done" =>
                        /\ IsComplete(zips[k])
                        /\ {m.path : m \in zips[k].members} =
                              {e.path : e \in new_hash[k]}
            /\ cache_files = ServerKeys
            /\ record = HashRecord("ok", new_hash))
    /\ (spc = "pool") ~> (spc = "serving")

C16_Witness ==
    /\ spc = "serving"
    /\ \E A, B \in ServerKeys :
          /\ builds[A].status = "failed"
          /\ builds[B].status = "done"
          /\ IsComplete(zips[B])
          /\ zips[B].members # {}

\* C17: when the build of a key failed and the key had a complete archive
\* from an earlier pass, GET /{key}?download=1 is still answered with that
\* earlier archive, unchanged.
C17_FailedBuildKeepsOldArchive ==
    (/\ handled.kind # "none"
     /\ handled.req.path = Root
     /\ handled.req.mode = "download"
     /\ builds[handled.req.key].status = "failed"
     /\ IsComplete(zips0[handled.req.key]))
    => (handled.kind = "archive" /\ handled.archive = zips0[handled.req.key])

\* C18: a pass rebuilds the archive of a key exactly when the Hash Record it
\* found has no entry for the key or the fresh manifest differs from the
\* entry; the archive file of any other key is not written; a missing or
\* unreadable Hash Record makes every key rebuilt.
C18_RebuildIffChanged ==
    PassRunning =>
        \A k \in ServerKeys :
            /\ (builds[k].status # "idle") <=>
                  \/ record0.state # "ok"
                  \/ k \notin DOMAIN record0.entries
                  \/ record0.entries[k] # new_hash[k]
            /\ builds[k].status = "idle" => zips[k] = zips0[k]
            /\ record0.state # "ok" => builds[k].status # "idle"

C18_Witness ==
    /\ spc = "serving"
    /\ record0.state = "ok"
    /\ \E A, B \in ServerKeys :
          /\ builds[A].status = "idle"
          /\ IsComplete(zips[A])
          /\ builds[B].status = "done"
          /\ record0.entries[B] # new_hash[B]

\* C19: a request for /{key}/{relativePath} whose path does not exist, or
\* whose final name is ignored, is answered 404.
C19_MissingOrIgnoredIsNotFound ==
    (/\ handled.kind # "none"
     /\ handled.req.path # Root
     /\ \/ ~IsFile(handled.req.key, handled.req.path)
        \/ should_ignore(Basename(handled.req.path)))
    => handled.code = 404

\* what the failure messages of the current key identify: a key, or a key
\* and a path
Identifier(key, path) == [key |-> key, path |-> path]

ReportedFailures ==
    {Identifier(m.key, m.path) : m \in {x \in printed : x.key # <<>>}}

\* the tasks whose download_file returned False, and the key itself when its
\* manifest or its archive could not be transferred
ActualFailures ==
    {Identifier(CurrentKey.key, tasks[i].path) :
        i \in {j \in TaskIds : tasks[j].result = "false"}}
    \cup (IF strategy = "nomanifest"
             \/ (strategy \in {"force", "full"} /\ ~Occurs("extract"))
          THEN {Identifier(CurrentKey.key, <<>>)}
          ELSE {})

\* C21: when the work on a key has ended, the failures reported to the user
\* are exactly the tasks whose download_file returned False plus the key when
\* its manifest or archive transfer failed; none is dropped.
C21_FailuresReported ==
    pc = "end" => ReportedFailures = ActualFailures

\* the entries of the received manifest whose value is the server's marker
\* for a file it could not read
SentinelLeaves == {i \in Leaves(manifest) : manifest[i].val = ErrorSentinel}

\* C22: after the diff, every manifest entry whose value is the sentinel
\* "error" has a task for its path, whatever the destination held at that
\* path; such an entry is never classified as matching.
C22_SentinelAlwaysFetched ==
    Diffed =>
        \A i \in SentinelLeaves :
            \E j \in TaskIds : tasks[j].path = LeafPath(manifest, i)

C22_Witness ==
    /\ Diffed
    /\ \E i \in SentinelLeaves :
          /\ local0[LeafPath(manifest, i)].kind = "file"
          /\ ~local0[LeafPath(manifest, i)].readable
          /\ \E j \in TaskIds : tasks[j].path = LeafPath(manifest, i)
    /\ \E i \in SentinelLeaves :
          /\ local0[LeafPath(manifest, i)].kind = "file"
          /\ local0[LeafPath(manifest, i)].readable

\* C23: the task list collect_download_tasks produces holds each relative
\* path at most once, for flat, nested and mixed manifests, so that no two
\* tasks of the pool write the same destination file.
C23_TaskPathsDistinct ==
    Diffed => \A i, j \in TaskIds : i # j => tasks[i].path # tasks[j].path

\* a manifest in the nested form: every key is one name
IsNested(m) ==
    \A i \in 1..Len(m) : \A k \in 1..Len(m[i].keys) : Len(m[i].keys[k]) = 1

RECURSIVE FlatForm(_)
\* the flat manifest of a nested one: each hash under the key made by joining
\* the names on the way to it with "/"
FlatForm(m) ==
    IF m = <<>> THEN <<>>
    ELSE IF Head(m).isdict THEN FlatForm(Tail(m))
    ELSE <<Leaf(<<Flatten(Head(m).keys)>>, Head(m).val)>> \o FlatForm(Tail(m))

PathsOf(ts) == {ts[i] : i \in 1..Len(ts)}

\* C24: for a nested manifest and the flat manifest obtained by joining its
\* path components, collect_download_tasks returns the same task paths and
\* count_server_files the same total, so the same strategy is selected.
C24_EncodingsEquivalent ==
    (IsNested(manifest) /\ strategy \in {"raised", "empty", "full", "itemized", "noop"}) =>
        LET flat == collect_download_tasks(FlatForm(manifest), local0) IN
        /\ strategy # "raised"
        /\ ~flat.raised
        /\ PathsOf(flat.tasks) = {tasks[i].path : i \in TaskIds}
        /\ Len(flat.tasks) = Len(tasks)
        /\ count_server_files(FlatForm(manifest)) = count_server_files(manifest)

\* the local files that the diff found equal to their manifest entry
MatchedPaths ==
    {p \in ManifestPaths(manifest) :
        \A k \in Leaves(manifest) :
            LeafPath(manifest, k) = p => Matches(local0[p], manifest[k].val)}

\* C25: when the archive of a key cannot be obtained, the destination is not
\* wiped for it: the work on the key ends with the local files that matched
\* the manifest still present.
C25_NoWipeWithoutArchive ==
    (pc = "end" /\ strategy = "full" /\ ~Occurs("extract")) =>
        \A p \in MatchedPaths : local[p] = local0[p]

\* C26: within one download_file call that started without a destination
\* file, whatever attempts fail (also after writing some bytes) before one
\* succeeds, a result of True means the destination equals the source, whether
\* the resumed attempt is answered with 206 or with 200 and the whole file.
C26_RetryLeavesSourceBytes ==
    \A i \in TaskIds :
        (/\ tasks[i].result = "true"
         /\ tasks[i].attempts > 1
         /\ local0[tasks[i].path].kind = "absent")
        => local[tasks[i].path].data = src[tasks[i].path].data

\* the archive a failed build leaves: closed by the `with` block before every
\* listed file was written
LeftByFailedBuild(z) == z.state = "closed" /\ ~z.whole

\* C27: a failed build is repaired by the next pass: when the build of a key
\* failed in one pass and its folder was not modified afterwards, the next
\* pass classifies the key as changed and builds its archive again.
C27_FailedBuildRebuiltNextPass ==
    \A k \in ServerKeys :
        (PassRunning /\ edits = 0 /\ LeftByFailedBuild(zips0[k]))
        => k \in ChangedKeys

\* the manifest of an archive: the paths of its members with the hash of the
\* bytes stored for each
ArchiveManifest(z) == {Entry(m.path, Md5(m.data)) : m \in z.members}

\* C28: after a pass in which no build failed, the archive of every key holds
\* exactly the paths of the key's manifest in the Hash Record, each with
\* bytes of the recorded hash, also when files are added, removed or modified
\* between the scan and the build.
C28_ArchiveAgreesWithRecord ==
    (/\ spc = "serving"
     /\ \A k \in ServerKeys : builds[k].status # "failed")
    => \A k \in ServerKeys : ArchiveManifest(zips[k]) = record.entries[k]

\* C29: at every moment while the server is serving, the hash that
\* GET /{key}/?json=1 publishes for a path is the hash of the bytes that
\* GET /{key}/{path}?download=1 serves, also after the file was modified
\* after startup (entries published as unreadable aside).
C29_PublishedHashIsServedHash ==
    (spc = "serving" /\ handled.kind = "none") =>
        \A k \in ServerKeys :
            \A e \in do_GET(Request(k, Root, "json")).manifest :
                e.md5 # ErrorSentinel =>
                    LET sent == do_GET(Request(k, e.path, "download")) IN
                    sent.kind = "file" /\ Md5(sent.data) = e.md5
====
